---- MODULE Spec2Model ----
(***************************************************************************)
(* Model of the BLDM config localizer:                                     *)
(*   src/Python/Localising using CAR  and XML file.py   (CAR + XML tool)   *)
(*   src/Python/LocalisationAssetForXml.py              (XML-only tool)    *)
(*                                                                         *)
(* Text is modelled as a sequence of tokens.  A token is a string that     *)
(* stands for the characters it spells: a whole opening or closing tag, a  *)
(* CDATA opener or closer, a line terminator, or one ordinary character.   *)
(* The only tokens that contain the character '<' are opening tags,        *)
(* closing tags and the CDATA opener, and each of them starts with it, so  *)
(* matching a regular expression or a substring token by token gives the   *)
(* same result as matching it character by character.                      *)
(* Platform: POSIX (os.linesep = "\n", os.path = posixpath).               *)
(*                                                                         *)
(* Three specifications:                                                   *)
(*   SpecXform  one transform applied to one file (the six operations);    *)
(*   Spec       a run of either tool: the operation pipeline over an XML   *)
(*              file, and the CAR job around it;                           *)
(*   SpecClean  the clean pass over an arbitrary intermediate archive.     *)
(***************************************************************************)
EXTENDS Integers, Sequences, FiniteSets, TLC

\* ------------------------------------------------------------------ bounds
MaxItems == 2

\* ------------------------------------------------------------------ tokens
OpenTag(t) == "<" \o t \o ">"
CloseTag(t) == "</" \o t \o ">"
CDO == "<![CDATA["
CDC == "]]>"
LF == "\n"
CRLF == "\r\n"

\* the tag lists of the six operations, in the order the code walks them
PathTags == <<"ppsDiskPathF", "neDiskPathF", "ppsSFTPPathF", "neSFTPClientPathF", "matcherPathF", "scPathF">>
HostTags == <<"ppsSFTPHostF", "neSFTPClientHostF">>
UserTags == <<"ppsSFTPUserF", "neSFTPClientUserF">>
PasswordTags == <<"ppsSFTPPasswordF", "neSFTPClientPasswordF">>
FlagTags == <<"ppsSFTPPassFlagF", "neSFTPClientPassFlagF">>
StoppedTags == <<"defaultStoppedState">>

Range(f) == {f[i] : i \in DOMAIN f}

AllTags == Range(PathTags) \cup Range(HostTags) \cup Range(UserTags)
             \cup Range(PasswordTags) \cup Range(FlagTags) \cup Range(StoppedTags) \cup {"name"}

\* the tokens whose first character is '<'
LtToks == {OpenTag(t) : t \in AllTags} \cup {CloseTag(t) : t \in AllTags} \cup {CDO}

\* ------------------------------------------------------------------ str helpers
\* s[i:] starts with pat
StartsAt(s, i, pat) ==
    /\ i + Len(pat) - 1 <= Len(s)
    /\ \A k \in 1..Len(pat) : s[i + k - 1] = pat[k]

Contains(s, pat) == \E i \in 1..Len(s) : StartsAt(s, i, pat)

\* str.replace(old, new): every non-overlapping occurrence, left to right
RECURSIVE ReplaceFrom(_, _, _, _)
ReplaceFrom(s, i, old, new) ==
    IF i > Len(s) THEN <<>>
    ELSE IF StartsAt(s, i, old) THEN new \o ReplaceFrom(s, i + Len(old), old, new)
    ELSE <<s[i]>> \o ReplaceFrom(s, i + 1, old, new)

Replace(s, old, new) == ReplaceFrom(s, 1, old, new)

\* str.lstrip('/')
RECURSIVE LStripSlash(_)
LStripSlash(s) == IF s # <<>> /\ s[1] = "/" THEN LStripSlash(Tail(s)) ELSE s

\* str.rstrip('/')
RECURSIVE RStripSlash(_)
RStripSlash(s) ==
    IF s # <<>> /\ s[Len(s)] = "/" THEN RStripSlash(SubSeq(s, 1, Len(s) - 1)) ELSE s

\* str.replace("\\", "/")
BackslashToSlash(s) == [i \in 1..Len(s) |-> IF s[i] = "\\" THEN "/" ELSE s[i]]

\* posixpath.join(a, b) for a b that does not start with '/'
PathJoin(a, b) ==
    IF a = <<>> \/ a[Len(a)] = "/" THEN a \o b ELSE a \o <<"/">> \o b

\* ------------------------------------------------------------------ the tag pattern
\* re: <tag>(?:<!\[CDATA\[(.*?)\]\]>|([^<]+))</tag>, with a trailing ? on the
\* group when opt.  The end (exclusive) of the match that starts at i, 0 if none.
CDataClose(s, tag, i) ==
    \* the first j with "]]>" at j and </tag> at j+1, nothing but non-newline before it
    IF i + 1 <= Len(s) /\ s[i + 1] = CDO
    THEN LET js == {j \in (i + 2)..(Len(s) - 1) :
                        /\ s[j] = CDC
                        /\ s[j + 1] = CloseTag(tag)
                        /\ \A k \in (i + 2)..(j - 1) : s[k] # LF}
         IN IF js = {} THEN 0 ELSE CHOOSE j \in js : \A j2 \in js : j <= j2
    ELSE 0

PlainClose(s, tag, i) ==
    \* [^<]+ runs up to the first token that starts with '<', which must be </tag>
    LET ks == {k \in (i + 1)..Len(s) : s[k] \in LtToks}
    IN IF ks = {} THEN 0
       ELSE LET k == CHOOSE k \in ks : \A k2 \in ks : k <= k2
            IN IF k > i + 1 /\ s[k] = CloseTag(tag) THEN k ELSE 0

MatchEnd(s, tag, i, opt) ==
    IF i > Len(s) \/ s[i] # OpenTag(tag) THEN 0
    ELSE LET cd == CDataClose(s, tag, i)
             pl == PlainClose(s, tag, i)
         IN IF cd # 0 THEN cd + 2
            ELSE IF pl # 0 THEN pl + 1
            ELSE IF opt /\ i + 1 <= Len(s) /\ s[i + 1] = CloseTag(tag) THEN i + 2
            ELSE 0

\* the match object of the match from i to e: group(0), and group(1) if the
\* CDATA branch matched, else group(2) (absent, read as empty, if neither did)
MatchObj(s, tag, i, e) ==
    LET cd == s[i + 1] = CDO
    IN [tag |-> tag,
        start |-> i,
        stop |-> e,
        full_tag |-> SubSeq(s, i, e - 1),
        cdata |-> cd,
        value |-> IF cd THEN SubSeq(s, i + 2, e - 3) ELSE SubSeq(s, i + 1, e - 2)]

\* re.finditer(pattern, s): the non-overlapping matches, left to right
RECURSIVE FindIterFrom(_, _, _, _)
FindIterFrom(s, tag, i, opt) ==
    IF i > Len(s) THEN <<>>
    ELSE LET e == MatchEnd(s, tag, i, opt)
         IN IF e # 0 THEN <<MatchObj(s, tag, i, e)>> \o FindIterFrom(s, tag, e, opt)
            ELSE FindIterFrom(s, tag, i + 1, opt)

FindIter(s, tag, opt) == FindIterFrom(s, tag, 1, opt)

\* re.search(pattern, s): the first match, as a sequence of at most one match
Search(s, tag, opt) ==
    LET ms == FindIter(s, tag, opt) IN IF ms = <<>> THEN <<>> ELSE <<ms[1]>>

\* ------------------------------------------------------------------ rewriting one line
\* (mutant of NewTag: the replacement is always written plain)
NewTag_AlwaysPlain(tag, full_tag, new) == <<OpenTag(tag)>> \o new \o <<CloseTag(tag)>>

\* the replacement tag: the CDATA form if "<![CDATA[" occurs in the matched text
NewTag(tag, full_tag, new) ==
    IF Contains(full_tag, <<CDO>>)
    THEN <<OpenTag(tag), CDO>> \o new \o <<CDC, CloseTag(tag)>>
    ELSE <<OpenTag(tag)>> \o new \o <<CloseTag(tag)>>

\* for match in matches: modified_line = modified_line.replace(full_tag, new_tag)
RECURSIVE ReplaceMatches(_, _, _, _)
ReplaceMatches(ml, ms, k, new) ==
    IF k > Len(ms) THEN ml
    ELSE ReplaceMatches(Replace(ml, ms[k].full_tag, NewTag(ms[k].tag, ms[k].full_tag, new)),
                        ms, k + 1, new)

\* for tag in tags: matches = re.finditer(pattern, modified_line); ...
\* r is [line, found]; every tag is matched against the line as rewritten so far
RECURSIVE UpdateTagsFrom(_, _, _, _)
UpdateTagsFrom(r, tags, k, new) ==
    IF k > Len(tags) THEN r
    ELSE LET ms == FindIter(r.line, tags[k], TRUE)
         IN UpdateTagsFrom([line |-> ReplaceMatches(r.line, ms, 1, new),
                            found |-> r.found \/ ms # <<>>],
                           tags, k + 1, new)

UpdateTags(line, tags, new) == UpdateTagsFrom([line |-> line, found |-> FALSE], tags, 1, new)

update_sftp_username_line(line, new_username) == UpdateTags(line, UserTags, new_username)

update_sftp_password_line(line, new_password) == UpdateTags(line, PasswordTags, new_password)

\* (variant of update_sftp_pass_flags_line: only the first of the two tags is rewritten)
update_sftp_pass_flags_line_FirstTag(line) == UpdateTags(line, <<FlagTags[1]>>, <<"0">>)

update_sftp_pass_flags_line(line) == UpdateTags(line, FlagTags, <<"0">>)

update_default_stopped_state_line(line) == UpdateTags(line, StoppedTags, <<"1">>)

\* update_sftp_host: re.search, and a pattern whose content is not optional
update_sftp_host_line(line, new_host) ==
    LET m1 == Search(line, HostTags[1], FALSE)
        l1 == ReplaceMatches(line, m1, 1, new_host)
        m2 == Search(l1, HostTags[2], FALSE)
        l2 == ReplaceMatches(l1, m2, 1, new_host)
    IN [line |-> l2, found |-> m1 # <<>> \/ m2 # <<>>]

\* extract_paths_from_line: (tag, path, full_tag) for every non-empty match, tag by tag
RECURSIVE ExtractFrom(_, _)
ExtractFrom(line, k) ==
    IF k > Len(PathTags) THEN <<>>
    ELSE SelectSeq(FindIter(line, PathTags[k], FALSE), LAMBDA m : m.value # <<>>)
           \o ExtractFrom(line, k + 1)

extract_paths_from_line(line) == ExtractFrom(line, 1)

\* combined_path = os.path.join(prefix, path.lstrip('/')).replace("\\", "/")
CombinedPath(prefix, path) == BackslashToSlash(PathJoin(prefix, LStripSlash(path)))

\* the loop of regenerate_xml over the extractions of one line
RECURSIVE RegenerateFrom(_, _, _, _)
RegenerateFrom(ml, ex, k, prefix) ==
    IF k > Len(ex) THEN ml
    ELSE RegenerateFrom(
           Replace(ml, ex[k].full_tag,
                   NewTag(ex[k].tag, ex[k].full_tag, CombinedPath(prefix, ex[k].value))),
           ex, k + 1, prefix)

regenerate_xml_line(line, prefix) ==
    LET ex == extract_paths_from_line(line)
    IN [line |-> RegenerateFrom(line, ex, 1, prefix), found |-> ex # <<>>]

\* ------------------------------------------------------------------ files as text
\* open(path, 'r'): the lines of a file, "\r\n" read as "\n" (universal newlines)
RECURSIVE ReadLinesFrom(_, _, _)
ReadLinesFrom(raw, i, acc) ==
    IF i > Len(raw) THEN (IF acc = <<>> THEN <<>> ELSE <<acc>>)
    ELSE IF raw[i] \in {LF, CRLF} THEN <<Append(acc, LF)>> \o ReadLinesFrom(raw, i + 1, <<>>)
    ELSE ReadLinesFrom(raw, i + 1, Append(acc, raw[i]))

ReadLines(raw) == ReadLinesFrom(raw, 1, <<>>)

\* the lines of a file as they are stored, terminators untranslated
RECURSIVE RawLinesFrom(_, _, _)
RawLinesFrom(raw, i, acc) ==
    IF i > Len(raw) THEN (IF acc = <<>> THEN <<>> ELSE <<acc>>)
    ELSE IF raw[i] \in {LF, CRLF} THEN <<Append(acc, raw[i])>> \o RawLinesFrom(raw, i + 1, <<>>)
    ELSE RawLinesFrom(raw, i + 1, Append(acc, raw[i]))

RawLines(raw) == RawLinesFrom(raw, 1, <<>>)

\* out_file.write(line) for every line: "\n" is written as os.linesep
RECURSIVE WriteLines(_)
WriteLines(lines) == IF lines = <<>> THEN <<>> ELSE Head(lines) \o WriteLines(Tail(lines))

\* what a transform leaves behind, given what its loop made of every line:
\* the output file, and whether any line held one of its tags
FileResult(rs) ==
    [out |-> WriteLines([i \in 1..Len(rs) |-> rs[i].line]),
     found |-> \E i \in 1..Len(rs) : rs[i].found]

regenerate_xml(raw, prefix) ==
    FileResult([i \in 1..Len(ReadLines(raw)) |-> regenerate_xml_line(ReadLines(raw)[i], prefix)])

update_sftp_host(raw, new_host) ==
    FileResult([i \in 1..Len(ReadLines(raw)) |-> update_sftp_host_line(ReadLines(raw)[i], new_host)])

update_sftp_username(raw, new_username) ==
    FileResult([i \in 1..Len(ReadLines(raw)) |->
                    update_sftp_username_line(ReadLines(raw)[i], new_username)])

update_sftp_password(raw, new_password) ==
    FileResult([i \in 1..Len(ReadLines(raw)) |->
                    update_sftp_password_line(ReadLines(raw)[i], new_password)])

update_sftp_pass_flags(raw) ==
    FileResult([i \in 1..Len(ReadLines(raw)) |-> update_sftp_pass_flags_line(ReadLines(raw)[i])])

update_default_stopped_state(raw) ==
    FileResult([i \in 1..Len(ReadLines(raw)) |->
                    update_default_stopped_state_line(ReadLines(raw)[i])])

\* ------------------------------------------------------------------ prompts
\* str.strip() of the blanks around a typed answer
RECURSIVE LStripBlank(_)
LStripBlank(s) == IF s # <<>> /\ s[1] = " " THEN LStripBlank(Tail(s)) ELSE s

RECURSIVE RStripBlank(_)
RStripBlank(s) ==
    IF s # <<>> /\ s[Len(s)] = " " THEN RStripBlank(SubSeq(s, 1, Len(s) - 1)) ELSE s

Strip(s) == RStripBlank(LStripBlank(s))

prompt_for_prefix_path(typed) ==
    LET p0 == Strip(typed)
        p1 == IF p0 = <<>> \/ p0[1] # "/" THEN <<"/">> \o p0 ELSE p0
    IN IF p1[Len(p1)] = "/" THEN SubSeq(p1, 1, Len(p1) - 1) ELSE p1

\* ------------------------------------------------------------------ state
VARIABLES
    xIn,     \* transform run: the input file, as stored
    xOp,     \* transform run: the operation whose tags the input file holds
    xArg,    \* transform run: the new value (the prefix, for the path operation)
    xOut,    \* transform run: the output file, as stored
    xFound,  \* transform run: the transform's result (whether a tag was found)
    xScript, \* transform run: the mkdir script written (empty while there is none)
    xpc,     \* transform run: "ready" before the transform, "done" after it
    prog,         \* tool run: which program runs ("car_xml_tool" or "xml_tool")
    kind,         \* tool run: the type of the selected file ("xml" or "car")
    fs,           \* tool run: the files on disk, path |-> content
    dirs,         \* tool run: the temporary directories that exist
    pc,           \* tool run: the statement the program is at
    sel,          \* tool run: operations, the selected operations
    file_path,    \* tool run: the XML file the pipeline was given
    output_file,  \* tool run: the output path of the pipeline
    cur,          \* tool run: current_input
    raised,       \* tool run: the SystemExit on its way out (-1: none)
    exitCode,     \* tool run: the exit code of the process (-1: still running)
    log,          \* tool run (history): what every operation read, wrote and returned
    arch          \* clean pass: [before, after], the archive given and the archive left

xvars == <<xIn, xOp, xArg, xOut, xFound, xScript, xpc>>

rvars == <<prog, kind, fs, dirs, pc, sel, file_path, output_file, cur, raised, exitCode, log>>

vars == <<xIn, xOp, xArg, xOut, xFound, xScript, xpc,
          prog, kind, fs, dirs, pc, sel, file_path, output_file, cur, raised, exitCode, log,
          arch>>

Ops == <<"paths", "host", "username", "password", "flags", "default_stopped">>

OpTags(op) ==
    CASE op = "paths" -> PathTags
      [] op = "host" -> HostTags
      [] op = "username" -> UserTags
      [] op = "password" -> PasswordTags
      [] op = "flags" -> FlagTags
      [] op = "default_stopped" -> StoppedTags

\* ------------------------------------------------------------------ one transform over one file
\* the input files: up to MaxItems items, each a tag occurrence of the operation
\* (plain or CDATA, empty or not), a stretch of text, another tag, or a terminator
Occurrence(tag, cdata, v) ==
    IF cdata THEN <<OpenTag(tag), CDO>> \o v \o <<CDC, CloseTag(tag)>>
    ELSE <<OpenTag(tag)>> \o v \o <<CloseTag(tag)>>

InputTags(op) == {OpTags(op)[1], OpTags(op)[Len(OpTags(op))]}

InputValues(op) ==
    IF op = "paths" THEN {<<>>, <<"/", "a">>, <<"/", "x", "/", "a">>, <<"a", "\\", "b">>}
    ELSE {<<>>, <<"a">>, <<"b">>}

Items(op) ==
    {Occurrence(t, c, v) : t \in InputTags(op), c \in BOOLEAN, v \in InputValues(op)}
      \cup {<<"t">>, Occurrence("name", FALSE, <<"a">>), <<LF>>, <<CRLF>>}

RECURSIVE Flatten(_)
Flatten(ss) == IF ss = <<>> THEN <<>> ELSE Head(ss) \o Flatten(Tail(ss))

InputFiles(op) == {Flatten(f) : f \in UNION {[1..n -> Items(op)] : n \in 1..MaxItems}}

\* what the user can type at the prefix prompt
TypedPrefixes ==
    {<<>>, <<"/">>, <<"x">>, <<" ", "/", "x", "/">>, <<"x", "/", "/">>, <<"x", "\\", "y">>}

\* what the host, username and password prompts can return
NewValues == {<<"n">>, <<"a">>}

\* ------------------------------------------------------------------ the mkdir script
QUOTE == "\""
MKDIR == "mkdir -p "

\* all_paths: the (tag, path) pairs of every line, in file order
all_paths(raw) ==
    Flatten([i \in 1..Len(ReadLines(raw)) |-> extract_paths_from_line(ReadLines(raw)[i])])

\* f'mkdir -p "{prefix.rstrip('/')}/{path.lstrip('/')}"'
MkdirCommand(prefix, path) ==
    <<MKDIR, QUOTE>> \o RStripSlash(prefix) \o <<"/">> \o LStripSlash(path) \o <<QUOTE>>

\* one command per entry, in the order of the entries
create_mkdir_commands(paths, prefix) ==
    [i \in 1..Len(paths) |-> MkdirCommand(prefix, paths[i].value)]

\* ord() of the first character of a token
Code(t) ==
    CASE t = " " -> 32
      [] t = QUOTE -> 34
      [] t = "/" -> 47
      [] t = "\\" -> 92
      [] t = "a" -> 97
      [] t = "b" -> 98
      [] t = MKDIR -> 109
      [] t = "n" -> 110
      [] t = "t" -> 116
      [] t = "x" -> 120
      [] t = "y" -> 121
      [] OTHER -> 60

\* str.__lt__: the first difference decides, a proper prefix is smaller
RECURSIVE StrLess(_, _)
StrLess(a, b) ==
    IF b = <<>> THEN FALSE
    ELSE IF a = <<>> THEN TRUE
    ELSE IF Code(Head(a)) # Code(Head(b)) THEN Code(Head(a)) < Code(Head(b))
    ELSE StrLess(Tail(a), Tail(b))

\* list.sort() of a list without duplicates
RECURSIVE Sorted(_)
Sorted(S) ==
    IF S = {} THEN <<>>
    ELSE LET least == CHOOSE c \in S : \A d \in S \ {c} : StrLess(c, d)
         IN <<least>> \o Sorted(S \ {least})

\* unique_commands = list(set(commands)); unique_commands.sort();
\* file.write(f"{command}\n") for each
write_mkdir_script(commands) ==
    LET unique_commands == Sorted(Range(commands))
    IN Flatten([i \in 1..Len(unique_commands) |-> Append(unique_commands[i], LF)])

\* the script of the path operation: written only when all_paths is not empty
mkdir_script(raw, prefix) ==
    IF all_paths(raw) = <<>> THEN <<>>
    ELSE write_mkdir_script(create_mkdir_commands(all_paths(raw), prefix))

\* the parts of the state a specification does not use stay as they are here
XformIdle ==
    /\ xIn = <<>> /\ xOp = "paths" /\ xArg = <<>> /\ xOut = <<>> /\ xFound = FALSE /\ xpc = "idle"
    /\ xScript = <<>>

RunIdle ==
    /\ prog = "none" /\ kind = "none" /\ fs = <<>> /\ dirs = {} /\ pc = "idle" /\ sel = {}
    /\ file_path = <<>> /\ output_file = <<>> /\ cur = <<>> /\ raised = -1 /\ exitCode = -1
    /\ log = <<>>

CleanIdle == arch = <<>>

InitXform ==
    /\ RunIdle /\ CleanIdle
    /\ xOp \in Range(Ops)
    /\ xIn \in InputFiles(xOp)
    /\ xArg = <<>>
    /\ xOut = <<>>
    /\ xFound = FALSE
    /\ xScript = <<>>
    /\ xpc = "ready"

Finish(r, arg, script) ==
    /\ xArg' = arg
    /\ xOut' = r.out
    /\ xFound' = r.found
    /\ xScript' = script
    /\ xpc' = "done"
    /\ UNCHANGED <<xIn, xOp>>
    /\ UNCHANGED <<rvars, arch>>

RunPaths ==
    /\ xpc = "ready" /\ xOp = "paths"
    /\ \E typed \in TypedPrefixes :
          Finish(regenerate_xml(xIn, prompt_for_prefix_path(typed)), prompt_for_prefix_path(typed),
                 mkdir_script(xIn, prompt_for_prefix_path(typed)))

RunHost ==
    /\ xpc = "ready" /\ xOp = "host"
    /\ \E v \in NewValues : Finish(update_sftp_host(xIn, v), v, xScript)

RunUsername ==
    /\ xpc = "ready" /\ xOp = "username"
    /\ \E v \in NewValues : Finish(update_sftp_username(xIn, v), v, xScript)

RunPassword ==
    /\ xpc = "ready" /\ xOp = "password"
    /\ \E v \in NewValues : Finish(update_sftp_password(xIn, v), v, xScript)

RunFlags ==
    /\ xpc = "ready" /\ xOp = "flags"
    /\ Finish(update_sftp_pass_flags(xIn), <<"0">>, xScript)

RunDefaultStopped ==
    /\ xpc = "ready" /\ xOp = "default_stopped"
    /\ Finish(update_default_stopped_state(xIn), <<"1">>, xScript)

NextXform ==
    \/ RunPaths
    \/ RunHost
    \/ RunUsername
    \/ RunPassword
    \/ RunFlags
    \/ RunDefaultStopped

SpecXform == InitXform /\ [][NextXform]_vars

\* ------------------------------------------------------------------ claims about the transforms
\* the occurrences of the given tags in a line, by position: every <tag>...</tag>
\* that opens and closes on the line, with plain, CDATA or empty content
RECURSIVE OccFrom(_, _, _)
OccFrom(s, tags, i) ==
    IF i > Len(s) THEN <<>>
    ELSE LET ts == {t \in Range(tags) : MatchEnd(s, t, i, TRUE) # 0}
         IN IF ts = {} THEN OccFrom(s, tags, i + 1)
            ELSE LET t == CHOOSE t \in ts : TRUE
                     e == MatchEnd(s, t, i, TRUE)
                 IN <<MatchObj(s, t, i, e)>> \o OccFrom(s, tags, e)

Occ(s, tags) == OccFrom(s, tags, 1)

\* a line with the value of every occurrence of the given tags taken out
RECURSIVE BlankFrom(_, _, _)
BlankFrom(s, tags, i) ==
    IF i > Len(s) THEN <<>>
    ELSE LET ts == {t \in Range(tags) : MatchEnd(s, t, i, TRUE) # 0}
         IN IF ts = {} THEN <<s[i]>> \o BlankFrom(s, tags, i + 1)
            ELSE LET t == CHOOSE t \in ts : TRUE
                     m == MatchObj(s, t, i, MatchEnd(s, t, i, TRUE))
                 IN Occurrence(t, m.cdata, <<>>) \o BlankFrom(s, tags, m.stop)

Blank(s, tags) == BlankFrom(s, tags, 1)

Shape(s, tags) ==
    LET os == Occ(s, tags) IN [k \in 1..Len(os) |-> <<os[k].tag, os[k].cdata>>]

\* the lines the transform read, and the lines of its output file
InLines == ReadLines(xIn)
OutLines == RawLines(xOut)

\* the content of the operation's tags must not be empty for host and paths
ContentRequired(op) == op \in {"paths", "host"}

\* C1: after the path-prefix operation with prefix P, every path-tag occurrence
\* with a non-empty value v has, in the output, the value join(P, v without its
\* leading slashes) with backslashes turned into slashes: prefixed exactly once.
C1_PrefixedExactlyOnce ==
    (xpc = "done" /\ xOp = "paths") =>
        /\ Len(OutLines) = Len(InLines)
        /\ \A i \in 1..Len(InLines) :
              LET I == Occ(InLines[i], PathTags)
                  O == Occ(OutLines[i], PathTags)
              IN /\ Len(O) = Len(I)
                 /\ \A k \in 1..Len(I) :
                       I[k].value # <<>> => O[k].value = CombinedPath(xArg, I[k].value)

\* C2: every transform writes one output line per input line, in order, and an
\* output line differs from its input line only inside the values of the
\* operation's own tags: everything else, the line terminator included, is
\* byte-identical.
C2_OnlyOwnValuesChange ==
    xpc = "done" =>
        /\ Len(RawLines(xOut)) = Len(RawLines(xIn))
        /\ \A i \in 1..Len(RawLines(xIn)) :
              Blank(RawLines(xOut)[i], OpTags(xOp)) = Blank(RawLines(xIn)[i], OpTags(xOp))

\* C3: every occurrence keeps its wrapper form: the occurrences of the
\* operation's tags in an output line are, one for one and in order, CDATA where
\* the input occurrence was CDATA and plain where it was plain.
C3_WrapperKept ==
    xpc = "done" =>
        /\ Len(OutLines) = Len(InLines)
        /\ \A i \in 1..Len(InLines) :
              Shape(OutLines[i], OpTags(xOp)) = Shape(InLines[i], OpTags(xOp))

\* a line with a CDATA occurrence and a plain occurrence, both rewritten
C3_Witness ==
    /\ xpc = "done"
    /\ \E i \in 1..Len(InLines) :
          LET I == Occ(InLines[i], OpTags(xOp))
              O == Occ(OutLines[i], OpTags(xOp))
          IN /\ Len(I) = 2 /\ Len(O) = 2
             /\ I[1].cdata /\ ~I[2].cdata
             /\ O[1].cdata /\ ~O[2].cdata
             /\ O[1].value # I[1].value
             /\ O[2].value # I[2].value

\* C4: when a line holds several occurrences of the operation's tags, every one
\* of them carries the new value in the output line (for the path operation: none
\* is left with its old value).
C4_EveryOccurrenceRewritten ==
    xpc = "done" =>
        \A i \in 1..Len(InLines) :
            LET I == Occ(InLines[i], OpTags(xOp))
                O == Occ(OutLines[i], OpTags(xOp))
            IN /\ Len(O) = Len(I)
               /\ \A k \in 1..Len(I) :
                     (ContentRequired(xOp) => I[k].value # <<>>) =>
                        IF xOp = "paths"
                        THEN O[k].value # I[k].value
                               \/ CombinedPath(xArg, I[k].value) = I[k].value
                        ELSE O[k].value = xArg

-----------------------------------------------------------------------------
\* Tool runs: the files on disk.  A path is a sequence of tokens: a directory
\* token, the tokens of the file name, the extension.  A file's content is a
\* record: where the bytes came from (src), the operations applied to them
\* (ops), and whether the file was written to its end (whole).

DirIn == "in/"                      \* the directory of the selected file
DirModified == "Modified files/"    \* os.getcwd()/Modified files
DirExtract == "car_extract_/"       \* the directory made by extract_car_file
DirCleanup == "car_cleanup_/"       \* the directory made by cleanup_and_repackage_car
DirCommands == "Manual commands for creating path/"   \* os.getcwd()/Manual commands ...

Exts == {".xml", ".XML", ".car", ".bin"}

\* os.path.splitext(p)[0] and os.path.splitext(p)[1]
Stem(p) == IF p # <<>> /\ p[Len(p)] \in Exts THEN SubSeq(p, 1, Len(p) - 1) ELSE p

Ext(p) == IF p # <<>> /\ p[Len(p)] \in Exts THEN <<p[Len(p)]>> ELSE <<>>

\* os.path.basename(p) and os.path.dirname(p), of a path with one directory token
BaseName(p) == Tail(p)

DirName(p) == <<Head(p)>>

XmlFile(id) == [src |-> id, ops |-> <<>>, whole |-> TRUE]

Exists(f, p) == p \in DOMAIN f

WriteFile(f, p, c) == [q \in DOMAIN f \cup {p} |-> IF q = p THEN c ELSE f[q]]

RemoveFile(f, p) == [q \in DOMAIN f \ {p} |-> f[q]]

RemoveFiles(f, ps) == [q \in DOMAIN f \ ps |-> f[q]]

\* os.rename(a, b) on POSIX: b is replaced
RenameFile(f, a, b) == WriteFile(RemoveFile(f, a), b, f[a])

\* what a transform writes: every line of the input, the operation applied
Applied(c, op) == [c EXCEPT !.ops = Append(@, op)]

\* what is on disk when a write stops before the end of the file
Partial(c) == [c EXCEPT !.whole = FALSE]

\* f"{os.path.splitext(output_file)[0]}_temp{k}{os.path.splitext(output_file)[1]}"
TempSuffix(op) ==
    CASE op = "paths" -> "_temp"
      [] op = "host" -> "_temp2"
      [] op = "username" -> "_temp3"
      [] op = "password" -> "_temp4"
      [] op = "flags" -> "_temp5"
      [] op = "default_stopped" -> "_temp6"

TempPath(output, op) == Stem(output) \o <<TempSuffix(op)>> \o Ext(output)

\* the final sweep: for i in range(1, 7)
SweepSuffixes == {"_temp1", "_temp2", "_temp3", "_temp4", "_temp5", "_temp6"}

SweepPaths(output) == {Stem(output) \o <<x>> \o Ext(output) : x \in SweepSuffixes}

\* get_output_filename, of an .xml or .car input
get_output_filename(input) == Stem(input) \o <<"_modified">> \o Ext(input)

\* the while loop of prompt_for_output_filename: base_1, base_2, ...
CounterSuffix == <<"_1", "_2">>

FirstFree(f, name) ==
    IF ~Exists(f, name) THEN name
    ELSE IF ~Exists(f, Stem(name) \o <<CounterSuffix[1]>> \o Ext(name))
         THEN Stem(name) \o <<CounterSuffix[1]>> \o Ext(name)
         ELSE Stem(name) \o <<CounterSuffix[2]>> \o Ext(name)

\* prompt_for_output_filename of the CAR and XML tool: "Modified files", no prompt
prompt_for_output_filename(f, default_name) ==
    IF Ext(default_name) = <<".xml">>
    THEN FirstFree(f, <<DirModified>> \o BaseName(default_name))
    ELSE default_name

\* prompt_for_output_filename of the XML tool: the typed name, .xml appended
prompt_for_output_filename_xml(default_name, typed) ==
    IF typed = <<>> THEN default_name
    ELSE IF Ext(typed) # <<".xml">> THEN typed \o <<".xml">>
    ELSE typed

-----------------------------------------------------------------------------
\* Tool runs: the operation pipeline (process_xml_file of the CAR and XML tool,
\* main of the XML tool).  One step per stage of the pipeline; what a stage's
\* transform finds in the file and whether its reads and writes succeed are
\* chosen here, every outcome the stage's code handles.

OpSet == Range(Ops)

\* at most this many operations are selected in a run
MaxSelected == 3

PipelinePcs == {"select", "output", "paths", "host", "username", "password", "flags",
                "default_stopped", "rename", "sweep"}

InputXml == <<DirIn, "a", ".xml">>

\* what may be typed at the XML tool's output prompt: nothing, the input's own
\* name with and without its extension, another name
TypedOutputs == {<<>>, InputXml, Stem(InputXml), <<DirIn, "o", ".xml">>}

\* files of an earlier run that may lie where this run's output goes
OldOutputs(pr) ==
    IF pr = "xml_tool" THEN {<<DirIn, "a", "_modified", ".xml">>}
    ELSE {<<DirModified, "a", "_modified", ".xml">>}

LogEntry(op, input, output, result, after) ==
    [op |-> op, input |-> input, output |-> output, result |-> result, after |-> after]

\* (variant of handle_error_with_countdown: the process ends with code 0)
handle_error_with_countdown_ExitZero(error_message) == 0

\* handle_error_with_countdown: the message, the countdown, then sys.exit(1)
handle_error_with_countdown(error_message) == 1

\* sys.exit(code): inside the try block of a CAR job the finally clause runs first
ExitWith(code) ==
    IF kind = "car"
    THEN pc' = "finally" /\ raised' = code /\ exitCode' = exitCode
    ELSE pc' = "exited" /\ raised' = raised /\ exitCode' = code

\* (variant of NextInput: the pointer is swapped whatever the result)
NextInput_Always(current_input, temp_output, success) == temp_output

\* the pointer after an update operation: swapped only on success
NextInput(current_input, temp_output, success) ==
    IF success THEN temp_output ELSE current_input

\* "if current_input != file_path: os.remove(current_input)", after a success
RemoveSuperseded(f, current_input, original) ==
    IF current_input # original /\ Exists(f, current_input)
    THEN RemoveFile(f, current_input) ELSE f

InitXmlRun ==
    /\ XformIdle /\ CleanIdle
    /\ prog \in {"car_xml_tool", "xml_tool"}
    /\ kind = "xml"
    /\ \E old \in SUBSET OldOutputs(prog) :
          fs = [q \in {InputXml} \cup old |->
                    IF q = InputXml THEN XmlFile(BaseName(InputXml)) ELSE XmlFile(<<"old">>)]
    /\ dirs = {}
    /\ pc = IF prog = "xml_tool" THEN "select" ELSE "output"
    /\ sel = {}
    /\ file_path = InputXml
    /\ output_file = <<>>
    /\ cur = InputXml
    /\ raised = -1 /\ exitCode = -1
    /\ log = <<>>

\* the output name: derived in the CAR and XML tool, prompted in the XML tool
OutputName ==
    /\ pc = "output"
    /\ IF prog = "xml_tool"
       THEN /\ \E typed \in TypedOutputs :
                  output_file' = prompt_for_output_filename_xml(get_output_filename(file_path), typed)
            /\ pc' = "paths"
       ELSE /\ output_file' = prompt_for_output_filename(fs, get_output_filename(file_path))
            /\ pc' = "select"
    /\ UNCHANGED <<prog, kind, fs, dirs, sel, file_path, cur, raised, exitCode, log>>
    /\ UNCHANGED <<xvars, arch>>

\* os.path.join(target_folder, f"Commands for {name}.txt"), for a file without a
\* <name> element: name is the base name of the selected file without its extension
ScriptPath(p) == <<DirCommands, "Commands for ">> \o Stem(BaseName(p)) \o <<".txt">>

\* the mkdir script of the file c, as a file
ScriptFile(c) == [src |-> c.src, ops |-> <<"mkdir">>, whole |-> TRUE]

\* write_mkdir_script inside the run: the script is written, or an IOError is
\* caught and there is no script
write_mkdir_script_file(f, p, c) == {WriteFile(f, ScriptPath(p), ScriptFile(c)), f}

\* the operations menu; "if not operations: return"; current_input = file_path
SelectOperations ==
    /\ pc = "select"
    /\ \E S \in SUBSET OpSet :
          /\ Cardinality(S) <= MaxSelected
          /\ sel' = S
          /\ pc' = IF S = {} THEN "return"
                   ELSE IF prog = "xml_tool" THEN "output" ELSE "paths"
    /\ cur' = file_path
    /\ UNCHANGED <<prog, kind, fs, dirs, file_path, output_file, raised, exitCode, log>>
    /\ UNCHANGED <<xvars, arch>>

\* the path operation: read_xml_lines, extract_paths_from_line,
\* create_mkdir_commands, write_mkdir_script, regenerate_xml
PathsStage ==
    /\ pc = "paths"
    /\ LET temp_file == TempPath(output_file, "paths")
       IN IF "paths" \notin sel
          THEN /\ pc' = "host"
               /\ UNCHANGED <<fs, cur, raised, exitCode, log>>
          ELSE \/ \* read_xml_lines cannot read the input: handle_error_with_countdown
                  /\ ExitWith(handle_error_with_countdown("Failed to read file"))
                  /\ log' = Append(log, LogEntry("paths", cur, <<>>, "error", cur))
                  /\ UNCHANGED <<fs, cur>>
               \/ \* no path tag in the file
                  /\ pc' = "host"
                  /\ log' = Append(log, LogEntry("paths", cur, <<>>, "nomatch", cur))
                  /\ UNCHANGED <<fs, cur, raised, exitCode>>
               \/ \* regenerate_xml writes the temporary file
                  /\ \E f \in write_mkdir_script_file(fs, file_path, fs[cur]) :
                        fs' = WriteFile(f, temp_file, Applied(fs[cur], "paths"))
                  /\ cur' = temp_file
                  /\ pc' = "host"
                  /\ log' = Append(log, LogEntry("paths", cur, temp_file, "found", temp_file))
                  /\ UNCHANGED <<raised, exitCode>>
               \/ \* regenerate_xml catches an IOError: the file is missing or cut short
                  /\ \E f \in write_mkdir_script_file(fs, file_path, fs[cur]) :
                        \/ fs' = f
                        \/ fs' = WriteFile(f, temp_file, Partial(Applied(fs[cur], "paths")))
                  /\ cur' = temp_file
                  /\ pc' = "host"
                  /\ log' = Append(log, LogEntry("paths", cur, temp_file, "ioerror", temp_file))
                  /\ UNCHANGED <<raised, exitCode>>
    /\ UNCHANGED <<prog, kind, dirs, sel, file_path, output_file>>
    /\ UNCHANGED <<xvars, arch>>

\* one of the five update operations: update_sftp_host, ..., with the
\* orchestrator's handling of its result
UpdateStage(op, next) ==
    /\ pc = op
    /\ LET temp_output == TempPath(output_file, op)
       IN IF op \notin sel
          THEN /\ pc' = next
               /\ UNCHANGED <<fs, cur, raised, exitCode, log>>
          ELSE IF ~Exists(fs, cur)
          THEN \* open(file_path, 'r') raises: except IOError, return False
               /\ pc' = next
               /\ cur' = NextInput(cur, temp_output, FALSE)
               /\ log' = Append(log, LogEntry(op, cur, temp_output, "ioerror", cur'))
               /\ UNCHANGED <<fs, raised, exitCode>>
          ELSE \/ \* a tag was found: return True
                  /\ fs' = RemoveSuperseded(WriteFile(fs, temp_output, Applied(fs[cur], op)),
                                            cur, file_path)
                  /\ cur' = NextInput(cur, temp_output, TRUE)
                  /\ pc' = next
                  /\ log' = Append(log, LogEntry(op, cur, temp_output, "found", cur'))
                  /\ UNCHANGED <<raised, exitCode>>
               \/ \* no tag was found: the copy is written, return False
                  /\ fs' = WriteFile(fs, temp_output, fs[cur])
                  /\ cur' = NextInput(cur, temp_output, FALSE)
                  /\ pc' = next
                  /\ log' = Append(log, LogEntry(op, cur, temp_output, "nomatch", cur'))
                  /\ UNCHANGED <<raised, exitCode>>
               \/ \* except IOError: return False
                  /\ \/ fs' = fs
                     \/ fs' = WriteFile(fs, temp_output, Partial(Applied(fs[cur], op)))
                  /\ cur' = NextInput(cur, temp_output, FALSE)
                  /\ pc' = next
                  /\ log' = Append(log, LogEntry(op, cur, temp_output, "ioerror", cur'))
                  /\ UNCHANGED <<raised, exitCode>>
               \/ \* any other exception: handle_error_with_countdown
                  /\ fs' = WriteFile(fs, temp_output, Partial(Applied(fs[cur], op)))
                  /\ ExitWith(handle_error_with_countdown("Error processing XML file"))
                  /\ log' = Append(log, LogEntry(op, cur, temp_output, "error", cur))
                  /\ UNCHANGED cur
    /\ UNCHANGED <<prog, kind, dirs, sel, file_path, output_file>>
    /\ UNCHANGED <<xvars, arch>>

HostStage == UpdateStage("host", "username")

UsernameStage == UpdateStage("username", "password")

PasswordStage == UpdateStage("password", "flags")

FlagsStage == UpdateStage("flags", "default_stopped")

DefaultStoppedStage == UpdateStage("default_stopped", "rename")

\* the final rename: os.remove(output_file) if it exists, os.rename
RenameStage ==
    /\ pc = "rename"
    /\ IF cur = file_path
       THEN UNCHANGED <<fs, log>>
       ELSE LET removed == IF Exists(fs, output_file) THEN RemoveFile(fs, output_file) ELSE fs
            IN \/ /\ Exists(removed, cur)
                  /\ fs' = RenameFile(removed, cur, output_file)
                  /\ log' = Append(log, LogEntry("rename", cur, output_file, "renamed", cur))
               \/ \* except OSError: os.remove or os.rename failed
                  /\ \/ fs' = fs /\ Exists(fs, output_file)
                     \/ fs' = removed
                  /\ log' = Append(log, LogEntry("rename", cur, output_file, "oserror", cur))
    /\ pc' = "sweep"
    /\ UNCHANGED <<prog, kind, dirs, sel, file_path, output_file, cur, raised, exitCode>>
    /\ UNCHANGED <<xvars, arch>>

\* the final sweep of the numbered temporary files
SweepStage ==
    /\ pc = "sweep"
    /\ fs' = RemoveFiles(fs, SweepPaths(output_file))
    /\ pc' = "return"
    /\ UNCHANGED <<prog, kind, dirs, sel, file_path, output_file, cur, raised, exitCode, log>>
    /\ UNCHANGED <<xvars, arch>>

\* KeyboardInterrupt in the pipeline: handle_user_cancellation, sys.exit(0)
InterruptPipeline ==
    /\ pc \in PipelinePcs
    /\ ExitWith(0)
    /\ log' = Append(log, LogEntry("interrupt", cur, <<>>, "cancelled", cur))
    /\ UNCHANGED <<prog, kind, fs, dirs, sel, file_path, output_file, cur>>
    /\ UNCHANGED <<xvars, arch>>

\* the end of an XML run: the summary, request_feedback, exit code 0
FinishXmlRun ==
    /\ pc = "return"
    /\ kind = "xml"
    /\ pc' = "exited"
    /\ exitCode' = 0
    /\ UNCHANGED <<prog, kind, fs, dirs, sel, file_path, output_file, cur, raised, log>>
    /\ UNCHANGED <<xvars, arch>>

-----------------------------------------------------------------------------
\* Archives.  An archive's content is [entries, whole]: entries maps each
\* archive-relative path to the content of the file stored there.  A relative
\* path is a sequence of tokens, directory tokens ending in "/".

Marker == "_modified"

\* file.lower().endswith('.xml')
IsXmlName(rel) == rel # <<>> /\ rel[Len(rel)] \in {".xml", ".XML"}

\* "_modified" in file: the file name, not its directories
HasMarker(rel) == \E i \in 1..Len(rel) : rel[i] = Marker

IsMarker(t) == t = Marker

\* file.replace("_modified", "")
StripMarker(rel) == SelectSeq(rel, LAMBDA t : ~IsMarker(t))

Archive(e) == [entries |-> e, whole |-> TRUE]

\* an archive file whose writing stopped, or that never was a ZIP file
BrokenArchive == [entries |-> <<>>, whole |-> FALSE]

\* zipfile.ZipFile(path, 'r') opens it
IsZip(c) == c.whole

\* the files below the directory d, by their path relative to d
Tree(f, d) == {q \in DOMAIN f : Head(q) = d}

ZipTree(f, d) == Archive([rel \in {Tail(q) : q \in Tree(f, d)} |-> f[<<d>> \o rel]])

\* zip_ref.extractall(d)
ExtractAll(f, d, e) ==
    [q \in DOMAIN f \cup {<<d>> \o rel : rel \in DOMAIN e} |->
        IF Head(q) = d THEN e[Tail(q)] ELSE f[q]]

\* shutil.rmtree(d): the files, and the directory itself
RemoveTree(f, d) == RemoveFiles(f, Tree(f, d))

\* (variant of rmtree: the directory is left in place)
rmtree_Skipped(ds, d) == ds

rmtree(ds, d) == ds \ {d}

\* (variant of KeptByClean: only files that carry the marker are kept)
KeptByClean_MarkedOnly(rel) == HasMarker(rel)

\* the clean pass keeps an extracted file unless it is an .xml file without the marker
KeptByClean(rel) == ~IsXmlName(rel) \/ HasMarker(rel)

\* rename_modified_xml_files renames the .xml files that carry the marker
RenamedByClean(rel) == IsXmlName(rel) /\ HasMarker(rel)

CleanName(rel) == IF RenamedByClean(rel) THEN StripMarker(rel) ELSE rel

\* The tree the clean pass repacks.  Two marked files whose names strip to the
\* same name are renamed onto each other (os.rename replaces on POSIX), and
\* the one the directory walk lists last stays: any of them.
CleanSources(e, t) == {rel \in DOMAIN e : KeptByClean(rel) /\ CleanName(rel) = t}

CleanTargets(e) == {CleanName(rel) : rel \in {r \in DOMAIN e : KeptByClean(r)}}

RECURSIVE CleanResultsFrom(_, _)
CleanResultsFrom(e, ts) ==
    IF ts = {} THEN {<<>>}
    ELSE LET t == CHOOSE x \in ts : TRUE
         IN {WriteFile(f, t, e[r]) : f \in CleanResultsFrom(e, ts \ {t}), r \in CleanSources(e, t)}

CleanResults(e) == CleanResultsFrom(e, CleanTargets(e))

-----------------------------------------------------------------------------
\* The CAR job of the CAR and XML tool: extract, pipeline, repackage, clean,
\* move to "Modified files", remove the temporary directory.

InputCar == <<DirIn, "x", ".car">>

\* the archives a job may be given, by the paths of their entries
InputEntrySets ==
    { {<<"a", ".xml">>},
      {<<"a", ".xml">>, <<"r", ".bin">>},
      {<<"a", ".xml">>, <<"a", "_modified", ".xml">>, <<"r", ".bin">>},
      {<<"a", "_modified", ".xml">>, <<"r", ".bin">>},
      {<<"a", ".xml">>, <<"b", ".xml">>, <<"d/", "r", ".bin">>},
      {<<"B", ".XML">>, <<"a", ".xml">>},
      {<<"r", ".bin">>} }

\* xml_files.sort(): the .xml paths of the archives above, in the order of
\* Python's string comparison ("B" sorts before "a", "." before "_", "a" before "b")
SortedXmlPaths ==
    << <<"B", ".XML">>, <<"a", ".xml">>, <<"a", "_modified", ".xml">>, <<"b", ".xml">> >>

\* (variant of FirstSorted: xml_files[0] of a walk that lists the greatest path first,
\* the list left unsorted)
FirstSorted_Unsorted(S) ==
    SortedXmlPaths[CHOOSE i \in 1..Len(SortedXmlPaths) :
                      /\ SortedXmlPaths[i] \in S
                      /\ \A j \in (i + 1)..Len(SortedXmlPaths) : SortedXmlPaths[j] \notin S]

\* xml_files[0] after the sort
FirstSorted(S) ==
    SortedXmlPaths[CHOOSE i \in 1..Len(SortedXmlPaths) :
                      /\ SortedXmlPaths[i] \in S
                      /\ \A j \in 1..(i - 1) : SortedXmlPaths[j] \notin S]

\* f"{os.path.splitext(file_path)[0]}_modified.car"
OutputCar == Stem(InputCar) \o <<Marker>> \o Ext(InputCar)

\* the while loop of main: name(1).car when the name is taken
FirstFreeDestination(f, name) ==
    IF ~Exists(f, name) THEN name ELSE Stem(name) \o <<"(1)">> \o Ext(name)

InitCarRun ==
    /\ XformIdle /\ CleanIdle
    /\ prog = "car_xml_tool"
    /\ kind = "car"
    /\ \E content \in {Archive([rel \in S |-> XmlFile(rel)]) : S \in InputEntrySets}
                         \cup {BrokenArchive} :
       \E old \in SUBSET {<<DirModified>> \o BaseName(OutputCar)} :
          fs = [q \in {InputCar} \cup old |->
                    IF q = InputCar THEN content ELSE Archive(<<>>)]
    /\ dirs = {}
    /\ pc = "extract"
    /\ sel = {}
    /\ file_path = <<>>
    /\ output_file = <<>>
    /\ cur = <<>>
    /\ raised = -1 /\ exitCode = -1
    /\ log = <<>>

\* process_car_file: extract_car_file, then the name of the modified XML
ExtractCar ==
    /\ pc = "extract"
    /\ LET content == fs[InputCar]
           xml_files == {rel \in DOMAIN content.entries : IsXmlName(rel)}
       IN \/ \* the archive is extracted and holds an .xml file
             /\ IsZip(content) /\ xml_files # {}
             /\ fs' = ExtractAll(fs, DirExtract, content.entries)
             /\ dirs' = dirs \cup {DirExtract}
             /\ file_path' = <<DirExtract>> \o FirstSorted(xml_files)
             /\ output_file' = Stem(file_path') \o <<Marker, ".xml">>
             /\ pc' = "select"
             /\ log' = Append(log, LogEntry("extract", InputCar, file_path', "ok", <<>>))
             /\ UNCHANGED exitCode
          \/ \* no .xml file in it: rmtree, handle_error_with_countdown
             /\ IsZip(content) /\ xml_files = {}
             /\ dirs' = rmtree(dirs \cup {DirExtract}, DirExtract)
             /\ pc' = "exited" /\ exitCode' = handle_error_with_countdown("No XML files found")
             /\ log' = Append(log, LogEntry("extract", InputCar, <<>>, "failed", <<>>))
             /\ UNCHANGED <<fs, file_path, output_file>>
          \/ \* except Exception (not a ZIP file, or the extraction fails): the same
             /\ dirs' = rmtree(dirs \cup {DirExtract}, DirExtract)
             /\ pc' = "exited" /\ exitCode' = handle_error_with_countdown("Error extracting CAR file")
             /\ log' = Append(log, LogEntry("extract", InputCar, <<>>, "failed", <<>>))
             /\ UNCHANGED <<fs, file_path, output_file>>
          \/ \* KeyboardInterrupt while extracting: not an Exception, and not yet
             \* inside main's try block; main's handler exits with code 0
             /\ \/ fs' = fs
                \/ IsZip(content) /\ fs' = ExtractAll(fs, DirExtract, content.entries)
             /\ dirs' = dirs \cup {DirExtract}
             /\ pc' = "exited" /\ exitCode' = 0
             /\ log' = Append(log, LogEntry("extract", InputCar, <<>>, "interrupted", <<>>))
             /\ UNCHANGED <<file_path, output_file>>
    /\ UNCHANGED <<prog, kind, sel, cur, raised>>
    /\ UNCHANGED <<xvars, arch>>

\* process_xml_file has returned to the CAR branch of main
ReturnToCarJob ==
    /\ pc = "return"
    /\ kind = "car"
    /\ pc' = "repackage"
    /\ UNCHANGED <<prog, kind, fs, dirs, sel, file_path, output_file, cur, raised, exitCode, log>>
    /\ UNCHANGED <<xvars, arch>>

\* (variant of AfterRepackage: the clean step runs whatever the repackage step returned)
AfterRepackage_Always(output_car) == "clean"

\* "if output_car:" the clean step, else the finally clause
AfterRepackage(output_car) == IF output_car THEN "clean" ELSE "finally"

\* repackage_car_file: delete_original_xml_from_car, shutil.copy2, the new ZIP
RepackageCar ==
    /\ pc = "repackage"
    /\ LET deleted == IF Exists(fs, file_path) THEN RemoveFile(fs, file_path) ELSE fs
       IN IF ~Exists(deleted, output_file)
          THEN \* shutil.copy2 raises: except Exception, return ""
               /\ fs' = deleted
               /\ pc' = AfterRepackage(FALSE)
               /\ log' = Append(log, LogEntry("repackage", output_file, <<>>, "failed", <<>>))
          ELSE LET copied == WriteFile(deleted, file_path, deleted[output_file])
               IN \/ /\ fs' = WriteFile(copied, OutputCar, ZipTree(copied, DirExtract))
                     /\ pc' = AfterRepackage(TRUE)
                     /\ log' = Append(log, LogEntry("repackage", output_file, OutputCar, "ok", <<>>))
                  \/ \* the ZIP cannot be created or written: return ""
                     /\ \/ fs' = copied
                        \/ fs' = WriteFile(copied, OutputCar, BrokenArchive)
                     /\ pc' = AfterRepackage(FALSE)
                     /\ log' = Append(log, LogEntry("repackage", output_file, <<>>, "failed", <<>>))
    /\ UNCHANGED <<prog, kind, dirs, sel, file_path, output_file, cur, raised, exitCode>>
    /\ UNCHANGED <<xvars, arch>>

\* (variant of AfterClean: the move is made whatever the clean pass returned)
AfterClean_Always(cleaned_car) == "move"

\* "if cleaned_car:" the move into the output directory, else the finally clause
AfterClean(cleaned_car) == IF cleaned_car THEN "move" ELSE "finally"

\* cleanup_and_repackage_car(output_car): the cleaned archive replaces it
CleanCar ==
    /\ pc = "clean"
    /\ \/ /\ Exists(fs, OutputCar) /\ IsZip(fs[OutputCar])
          /\ \E after \in CleanResults(fs[OutputCar].entries) :
             /\ fs' = WriteFile(fs, OutputCar, Archive(after))
             /\ pc' = AfterClean(TRUE)
             /\ log' = Append(log, LogEntry("clean", OutputCar, OutputCar, "ok", <<>>))
       \/ \* except Exception: return ""
          /\ \/ fs' = fs
             \/ fs' = WriteFile(fs, OutputCar, BrokenArchive)
          /\ pc' = AfterClean(FALSE)
          /\ log' = Append(log, LogEntry("clean", OutputCar, <<>>, "failed", <<>>))
    /\ dirs' = rmtree(dirs \cup {DirCleanup}, DirCleanup)
    /\ UNCHANGED <<prog, kind, sel, file_path, output_file, cur, raised, exitCode>>
    /\ UNCHANGED <<xvars, arch>>

\* shutil.move(cleaned_car, destination) into "Modified files"
MoveCar ==
    /\ pc = "move"
    /\ LET destination == FirstFreeDestination(fs, <<DirModified>> \o BaseName(OutputCar))
       IN \/ /\ fs' = RenameFile(fs, OutputCar, destination)
             /\ log' = Append(log, LogEntry("move", OutputCar, destination, "ok", <<>>))
             /\ UNCHANGED raised
          \/ \* shutil.move raises: main's except Exception, after the finally clause
             /\ raised' = 1
             /\ log' = Append(log, LogEntry("move", OutputCar, <<>>, "failed", <<>>))
             /\ UNCHANGED fs
    /\ pc' = "finally"
    /\ UNCHANGED <<prog, kind, dirs, sel, file_path, output_file, cur, exitCode>>
    /\ UNCHANGED <<xvars, arch>>

\* KeyboardInterrupt after the pipeline, inside the try block of the CAR branch
InterruptCarJob ==
    /\ pc \in {"return", "repackage", "clean", "move"}
    /\ kind = "car"
    /\ ExitWith(0)
    /\ log' = Append(log, LogEntry("interrupt_main", cur, <<>>, "cancelled", cur))
    /\ UNCHANGED <<prog, kind, fs, dirs, sel, file_path, output_file, cur>>
    /\ UNCHANGED <<xvars, arch>>

\* the finally clause: cleanup_temp_directory(temp_dir); then the pending
\* exit, or log_summary and request_feedback and exit code 0
FinallyCleanup ==
    /\ pc = "finally"
    /\ fs' = RemoveTree(fs, DirExtract)
    /\ dirs' = rmtree(dirs, DirExtract)
    /\ pc' = "exited"
    /\ exitCode' = IF raised # -1 THEN raised ELSE 0
    /\ UNCHANGED <<prog, kind, sel, file_path, output_file, cur, raised, log>>
    /\ UNCHANGED <<xvars, arch>>

Init ==
    \/ InitXmlRun
    \/ InitCarRun

Next ==
    \/ OutputName
    \/ SelectOperations
    \/ PathsStage
    \/ HostStage
    \/ UsernameStage
    \/ PasswordStage
    \/ FlagsStage
    \/ DefaultStoppedStage
    \/ RenameStage
    \/ SweepStage
    \/ InterruptPipeline
    \/ FinishXmlRun
    \/ ExtractCar
    \/ ReturnToCarJob
    \/ RepackageCar
    \/ CleanCar
    \/ MoveCar
    \/ InterruptCarJob
    \/ FinallyCleanup

Spec == Init /\ [][Next]_vars

-----------------------------------------------------------------------------
\* The clean pass on its own: cleanup_and_repackage_car over any archive made
\* of the entries below.

CleanUniverse ==
    { <<"a", ".xml">>, <<"a", "_modified", ".xml">>,
      <<"b", "_modified", ".xml">>, <<"b", "_modified", "_modified", ".xml">>,
      <<"c", ".XML">>, <<"r", ".bin">>, <<"r", "_modified", ".bin">>,
      <<"d_modified/", "c", ".xml">>, <<"d/", "a", "_modified", ".xml">> }

InitClean ==
    /\ XformIdle /\ RunIdle
    /\ \E S \in SUBSET CleanUniverse :
          arch = [before |-> [rel \in S |-> XmlFile(rel)], after |-> <<>>, result |-> "none"]

cleanup_and_repackage_car ==
    /\ arch.result = "none"
    /\ \/ \E after \in CleanResults(arch.before) :
             arch' = [arch EXCEPT !.after = after, !.result = "ok"]
       \/ \* except Exception: return ""
          arch' = [arch EXCEPT !.result = "failed"]
    /\ UNCHANGED <<xvars, rvars>>

NextClean == cleanup_and_repackage_car

SpecClean == InitClean /\ [][NextClean]_vars

-----------------------------------------------------------------------------
\* Properties of the tool runs

\* the file the user selected
OriginalInput == IF kind = "car" THEN InputCar ELSE InputXml

HasEntry(op, result) == \E i \in 1..Len(log) : log[i].op = op /\ log[i].result = result

\* the position of a stage in the run, 0 outside the pipeline and the job
StageNo(p) ==
    CASE p = "paths" -> 1 [] p = "host" -> 2 [] p = "username" -> 3 [] p = "password" -> 4
      [] p = "flags" -> 5 [] p = "default_stopped" -> 6 [] p = "rename" -> 7
      [] p = "sweep" -> 8 [] p = "return" -> 9 [] p = "repackage" -> 10
      [] p = "clean" -> 11 [] p = "move" -> 12 [] OTHER -> 0

\* C5: in every run the original input file (the selected .xml file or the
\* selected .car archive) is never written, renamed or deleted: no step of a
\* run changes its content or removes it.
C5_OriginalNeverTouched ==
    [][Exists(fs, OriginalInput) =>
          Exists(fs', OriginalInput) /\ fs'[OriginalInput] = fs[OriginalInput]]_vars

C7_CleanPass ==
    arch.result = "ok" =>
        /\ \A t \in DOMAIN arch.after : \A r \in DOMAIN arch.before :
              (IsXmlName(t) /\ IsXmlName(r) /\ ~HasMarker(r)) => arch.after[t] # arch.before[r]
        /\ \A r \in DOMAIN arch.before :
              (IsXmlName(r) /\ HasMarker(r)) =>
                  /\ StripMarker(r) \in DOMAIN arch.after
                  /\ arch.after[StripMarker(r)] = arch.before[r]
        /\ \A t \in DOMAIN arch.after : IsXmlName(t) => ~HasMarker(t)

\* C8: after a successful repackage step the archive <original>_modified.car
\* holds one entry for every file of the temp tree, at its relative path, and
\* the entry at the selected XML's path has the content of the modified XML the
\* pipeline produced (the file it renamed to the output path), not the content
\* the selected XML had before.
C8_RepackagedArchive ==
    (kind = "car" /\ pc = "clean") =>
        LET entries == fs[OutputCar].entries
            rel_xml_path == Tail(file_path)
        IN /\ DOMAIN entries = {Tail(q) : q \in Tree(fs, DirExtract)}
           /\ \A rel \in DOMAIN entries : entries[rel] = fs[<<DirExtract>> \o rel]
           /\ HasEntry("rename", "renamed")
           /\ entries[rel_xml_path] = fs[output_file]
           /\ entries[rel_xml_path] # fs[InputCar].entries[rel_xml_path]

\* the destination of the move, when the job moved its archive
Destinations == {log[i].output : i \in {j \in 1..Len(log) : log[j].op = "move" /\ log[j].result = "ok"}}

\* C9: after a successful CAR job every file of the input archive that is not
\* an .xml file is in the final archive at the same relative path with the
\* same content, and the final archive has no non-XML entry the input lacked.
C9_NonXmlPreserved ==
    (kind = "car" /\ pc = "exited") =>
        \A d \in Destinations :
            LET final == fs[d].entries
                input == fs[InputCar].entries
            IN /\ \A rel \in DOMAIN input :
                     ~IsXmlName(rel) => rel \in DOMAIN final /\ final[rel] = input[rel]
               /\ \A rel \in DOMAIN final : ~IsXmlName(rel) => rel \in DOMAIN input

\* a successful job over an archive with a non-XML file in a directory
C9_Witness ==
    /\ kind = "car" /\ pc = "exited" /\ exitCode = 0
    /\ Destinations # {}
    /\ <<"d/", "r", ".bin">> \in DOMAIN fs[InputCar].entries
    /\ \A d \in Destinations : <<"d/", "r", ".bin">> \in DOMAIN fs[d].entries

\* C10: when a selected operation reports no match, the current-input pointer
\* is left as it was; the next operation reads the file the skipped operation
\* read; the copy the skipped operation wrote is never the input of a later
\* operation nor the file renamed to the output; and every selected operation
\* that comes later in the pipeline still runs.
C10_NoMatchKeepsPointer ==
    \A i \in 1..Len(log) :
        log[i].result = "nomatch" =>
            /\ log[i].after = log[i].input
            /\ (i < Len(log) /\ log[i + 1].op \in OpSet) => log[i + 1].input = log[i].input
            /\ \A j \in (i + 1)..Len(log) : log[j].input # log[i].output
            /\ \A op \in sel :
                  (StageNo(op) > StageNo(log[i].op) /\ StageNo(pc) > StageNo(op))
                      => \E j \in (i + 1)..Len(log) : log[j].op = op

\* a skipped operation, then a successful one, then the final rename
C10_Witness ==
    \E i, j, k \in 1..Len(log) :
        /\ i < j /\ j < k
        /\ log[i].result = "nomatch" /\ log[i].output # <<>>
        /\ log[j].result = "found" /\ log[j].input = log[i].input
        /\ log[k].op = "rename" /\ log[k].result = "renamed"

\* the intermediate files of the run: <output>_temp, <output>_temp2 ... <output>_temp6
TempFiles == {TempPath(output_file, op) : op \in OpSet}

\* the pipeline has run to its end: the rename stage and the sweep are done
PipelineCompleted == pc = "return" /\ sel # {}

\* the operations' entries of the log, and the last one that reported success
OpEntries == {i \in 1..Len(log) : log[i].op \in OpSet}

IsLastFound(i) ==
    /\ i \in OpEntries /\ log[i].result = "found"
    /\ \A j \in OpEntries : (j > i) => log[j].result # "found"

\* C11: when the pipeline has completed and the final rename succeeded, the
\* output path holds the file the last successful operation wrote; and when
\* the pipeline has completed without a failed rename, with or without a
\* successful operation, none of <output>_temp, <output>_temp2 ...
\* <output>_temp6 is on disk.
C11_OutputAndNoIntermediates ==
    PipelineCompleted =>
        /\ HasEntry("rename", "renamed") =>
              \E i \in OpEntries : \E r \in 1..Len(log) :
                  /\ IsLastFound(i)
                  /\ log[r].op = "rename" /\ log[r].input = log[i].output
                  /\ Exists(fs, output_file)
                  /\ fs[output_file].ops # <<>>
                  /\ fs[output_file].ops[Len(fs[output_file].ops)] = log[i].op
        /\ ~HasEntry("rename", "oserror") => \A q \in TempFiles : ~Exists(fs, q)

\* C12: between two operations of the pipeline the only intermediate file of
\* the run on disk is the one current_input names.
C12_OnlyCurrentIntermediate ==
    (pc \in {"host", "username", "password", "flags", "default_stopped", "rename"})
        => \A q \in TempFiles : Exists(fs, q) => q = cur

\* C13: when an operation fails with an I/O error the pointer is left where it
\* was, current_input names a file that exists and was written to its end, so
\* does the input of every later operation and of the final rename, and the
\* selected operations that come later still run.
C13_IoErrorAbandonsOneOperation ==
    /\ \A i \in 1..Len(log) :
          log[i].result = "ioerror" =>
              /\ log[i].after = log[i].input
              /\ \A op \in sel :
                    (StageNo(op) > StageNo(log[i].op) /\ StageNo(pc) > StageNo(op))
                        => \E j \in (i + 1)..Len(log) : log[j].op = op
    /\ (pc \in {"host", "username", "password", "flags", "default_stopped", "rename"})
          => Exists(fs, cur) /\ fs[cur].whole
    /\ (PipelineCompleted /\ HasEntry("rename", "renamed")) => fs[output_file].whole

-----------------------------------------------------------------------------
\* More properties of the transforms

\* a line holds an occurrence that the operation's pattern matches: any
\* occurrence for the optional-content tags; for the host tags, whose plain
\* content must not be empty, a CDATA occurrence or a non-empty plain one
HoldsMatch(op, line) ==
    \E k \in 1..Len(Occ(line, OpTags(op))) :
        LET m == Occ(line, OpTags(op))[k]
        IN op = "host" => (m.cdata \/ m.value # <<>>)

\* C14: a tag-update function returns True exactly when some line of the file
\* holds an occurrence of one of its tags that its pattern matches; and when it
\* returns False the output file is identical to the input file.
C14_ResultAndCopy ==
    (xpc = "done" /\ xOp # "paths") =>
        /\ xFound <=> \E i \in 1..Len(InLines) : HoldsMatch(xOp, InLines[i])
        /\ ~xFound => xOut = xIn

\* the content the flag and default-stopped operations force
ForcedValue(op) == IF op = "flags" THEN <<"0">> ELSE <<"1">>

\* C15: after the flag operation every occurrence of its two tags has content
\* exactly 0, and after the default-stopped operation every occurrence of
\* defaultStoppedState has content exactly 1, whatever the old content was,
\* empty included; no occurrence is lost.
C15_FlagsForced ==
    (xpc = "done" /\ xOp \in {"flags", "default_stopped"}) =>
        /\ Len(OutLines) = Len(InLines)
        /\ \A i \in 1..Len(InLines) :
              LET I == Occ(InLines[i], OpTags(xOp))
                  O == Occ(OutLines[i], OpTags(xOp))
              IN /\ Len(O) = Len(I)
                 /\ \A k \in 1..Len(O) : O[k].value = ForcedValue(xOp)

\* a line with an empty <tag></tag> and an occurrence of the other flag tag
C15_Witness ==
    /\ xpc = "done" /\ xOp = "flags"
    /\ \E i \in 1..Len(InLines) :
          LET I == Occ(InLines[i], FlagTags)
              O == Occ(OutLines[i], FlagTags)
          IN /\ Len(I) = 2 /\ Len(O) = 2
             /\ I[1].tag # I[2].tag
             /\ \E k \in 1..2 : I[k].value = <<>> /\ ~I[k].cdata
             /\ O[1].value = <<"0">> /\ O[2].value = <<"0">>

\* C16: a host tag or a path tag with empty content, <tag></tag> or
\* <tag><![CDATA[]]></tag>, is left as it is by the host and path operations,
\* does not make the operation report a found tag, and gives no path entry.
C16_EmptyNotMatched ==
    (xpc = "done" /\ xOp \in {"host", "paths"}) =>
        /\ Len(OutLines) = Len(InLines)
        /\ \A i \in 1..Len(InLines) :
              LET I == Occ(InLines[i], OpTags(xOp))
                  O == Occ(OutLines[i], OpTags(xOp))
              IN /\ Len(O) = Len(I)
                 /\ \A k \in 1..Len(I) : I[k].value = <<>> => O[k].full_tag = I[k].full_tag
                 /\ \A k \in 1..Len(extract_paths_from_line(InLines[i])) :
                       extract_paths_from_line(InLines[i])[k].value # <<>>
        /\ xFound => \E i \in 1..Len(InLines) :
                        \E k \in 1..Len(Occ(InLines[i], OpTags(xOp))) :
                            Occ(InLines[i], OpTags(xOp))[k].value # <<>>

\* C17: whatever is typed at the prefix prompt, the prefix the path operation
\* uses starts with "/" and does not end with "/".
C17_PrefixNormalised ==
    (xpc = "done" /\ xOp = "paths") =>
        /\ xArg # <<>>
        /\ xArg[1] = "/"
        /\ xArg[Len(xArg)] # "/"

\* C19: after the path operation with prefix P, extracting the paths from
\* every line of the output file gives only paths that start with P.
C19_ExtractedPathsStartWithPrefix ==
    (xpc = "done" /\ xOp = "paths") =>
        \A i \in 1..Len(ReadLines(xOut)) :
            \A k \in 1..Len(extract_paths_from_line(ReadLines(xOut)[i])) :
                StartsAt(extract_paths_from_line(ReadLines(xOut)[i])[k].value, 1, xArg)

\* the entries the script was made from, and the lines of the script
ScriptEntries == all_paths(xIn)

ScriptLines ==
    [i \in 1..Len(RawLines(xScript)) |->
        SubSeq(RawLines(xScript)[i], 1, Len(RawLines(xScript)[i]) - 1)]

ScriptOf(entries) == write_mkdir_script(create_mkdir_commands(entries, xArg))

Reversed(s) == [i \in 1..Len(s) |-> s[Len(s) + 1 - i]]

Retagged(s, t) == [i \in 1..Len(s) |-> [s[i] EXCEPT !.tag = t]]

\* C18: the script holds one line mkdir -p "<prefix>/<path without leading
\* slashes>" per distinct command, without duplicates and in ascending order,
\* and is the same for the entries reversed, retagged or repeated.
C18_ScriptIsSortedSetOfCommands ==
    (xpc = "done" /\ xOp = "paths" /\ ScriptEntries # <<>>) =>
        /\ Range(ScriptLines) =
             {<<MKDIR, QUOTE>> \o xArg \o <<"/">> \o LStripSlash(ScriptEntries[i].value)
                 \o <<QUOTE>> : i \in 1..Len(ScriptEntries)}
        /\ \A i \in 1..(Len(ScriptLines) - 1) : StrLess(ScriptLines[i], ScriptLines[i + 1])
        /\ ScriptOf(Reversed(ScriptEntries)) = xScript
        /\ \A t \in Range(PathTags) : ScriptOf(Retagged(ScriptEntries, t)) = xScript
        /\ ScriptOf(ScriptEntries \o ScriptEntries) = xScript

\* the selected container is not a ZIP archive, or holds no .xml file
Unusable(c) == ~c.whole \/ \A rel \in DOMAIN c.entries : rel[Len(rel)] \notin {".xml", ".XML"}

XmlEntries == {rel \in DOMAIN fs[InputCar].entries : rel[Len(rel)] \in {".xml", ".XML"}}

SelectedXml == Tail(file_path)

\* rel comes before other in the order of Python's string comparison
ComesBefore(rel, other) ==
    \E i \in 1..Len(SortedXmlPaths) :
        /\ SortedXmlPaths[i] = rel
        /\ \E j \in (i + 1)..Len(SortedXmlPaths) : SortedXmlPaths[j] = other

\* C21: after a successful extraction the selected file is the .xml entry
\* with the smallest path; every operation of the pipeline reads that file
\* or an intermediate made from it (stated of the entry recorded last, every
\* entry being the last one in the state after its step), and until the
\* repackage step the other extracted .xml files hold what the container
\* held for them (the file at the output path aside, which the pipeline writes).
C21_SmallestXmlSelected ==
    (kind = "car" /\ file_path # <<>>) =>
        LET others == XmlEntries \ {SelectedXml}
        IN /\ SelectedXml \in XmlEntries
           /\ \A other \in others : ComesBefore(SelectedXml, other)
           /\ (log # <<>> /\ log[Len(log)].op \in OpSet) =>
                 (log[Len(log)].input = file_path \/ log[Len(log)].input \in TempFiles)
           /\ (pc \in PipelinePcs \cup {"return", "repackage"}) =>
                 \A other \in others :
                     (<<DirExtract>> \o other # output_file) =>
                         /\ Exists(fs, <<DirExtract>> \o other)
                         /\ fs[<<DirExtract>> \o other] = fs[InputCar].entries[other]

\* a job on a container with two .xml files has run an operation that found its tag
C21_Witness ==
    /\ kind = "car" /\ pc = "return"
    /\ Cardinality(XmlEntries) = 2
    /\ \E i \in OpEntries : log[i].result = "found"
    /\ \A other \in XmlEntries : <<DirExtract>> \o other # output_file

\* the archives in the output directory when the job started: at most an
\* older output archive, empty
OutputDirAsAtStart ==
    /\ Tree(fs, DirModified) \subseteq {<<DirModified>> \o BaseName(OutputCar)}
    /\ \A q \in Tree(fs, DirModified) : fs[q] = Archive(<<>>)

StepFailed(i) == log[i].op \in {"repackage", "clean"} /\ log[i].result = "failed"

JobStep(op) ==
    CASE op = "extract" -> 1 [] op = "repackage" -> 3 [] op = "clean" -> 4
      [] op = "move" -> 5 [] OTHER -> 2

LastEntry(l, op, result) == l # <<>> /\ l[Len(l)].op = op /\ l[Len(l)].result = result

\* C23: in a CAR job the steps come in the order extract, transform,
\* repackage, clean, move, the four archive steps at most once each: the
\* repackage step is entered only from the return of the pipeline, the clean
\* step only when the repackage step has just left an archive, the move only
\* when the clean step has just succeeded, and every step a job records is
\* later in that order than every step it recorded before.
C23_StepOrder ==
    [][kind = "car" =>
         /\ (pc' = "repackage" /\ pc # "repackage") => pc = "return"
         /\ (pc' = "clean" /\ pc # "clean") =>
               /\ pc = "repackage" /\ LastEntry(log', "repackage", "ok")
               /\ Exists(fs', OutputCar) /\ IsZip(fs'[OutputCar])
         /\ (pc' = "move" /\ pc # "move") => pc = "clean" /\ LastEntry(log', "clean", "ok")
         /\ (log' # log /\ log'[Len(log')].op \notin {"interrupt", "interrupt_main"}) =>
               /\ Len(log') = Len(log) + 1 /\ SubSeq(log', 1, Len(log)) = log
               /\ log'[Len(log')].op \in {"repackage", "clean", "move"}
                     => pc = log'[Len(log')].op
               /\ \A i \in 1..Len(log) :
                     /\ JobStep(log[i].op) <= JobStep(log'[Len(log')].op)
                     /\ JobStep(log[i].op) = JobStep(log'[Len(log')].op)
                           => JobStep(log[i].op) = 2]_vars

\* a job has run all five steps and has exited
C23_Witness ==
    /\ kind = "car" /\ pc = "exited"
    /\ HasEntry("extract", "ok") /\ HasEntry("host", "found") /\ HasEntry("repackage", "ok")
    /\ HasEntry("clean", "ok") /\ HasEntry("move", "ok")

\* how a run that has exited ended
Interrupted ==
    \E i \in 1..Len(log) : log[i].result \in {"cancelled", "interrupted"}

EndedInError ==
    \E i \in 1..Len(log) :
        \/ log[i].result = "error"
        \/ log[i].op \in {"extract", "move"} /\ log[i].result = "failed"

Succeeded == \A i \in 1..Len(log) : log[i].result \in {"ok", "found", "nomatch", "renamed"}

\* C24: a run that was interrupted or ended in an unrecoverable error has
\* exit code 1, and a run in which every step succeeded has exit code 0.
C24_ExitCodes ==
    pc = "exited" =>
        /\ (Interrupted \/ EndedInError) => exitCode = 1
        /\ Succeeded => exitCode = 0

\* C25: a run that was interrupted while the pipeline was running has, when
\* it has exited, none of its intermediate files left and no extraction
\* directory.
C25_InterruptCleansUp ==
    (pc = "exited" /\ \E i \in 1..Len(log) : log[i].op = "interrupt") =>
        /\ \A q \in TempFiles : ~Exists(fs, q)
        /\ dirs = {}
        /\ Tree(fs, DirExtract) = {}

\* the operations that succeeded before entry i, and the file entry i should read
FoundBefore(i) == {j \in OpEntries : j < i /\ log[j].result = "found"}

ExpectedInput(i) ==
    IF FoundBefore(i) = {} THEN file_path
    ELSE log[CHOOSE j \in FoundBefore(i) : \A k \in FoundBefore(i) : k <= j].output

\* the operations that succeeded, in the order they ran
FoundOps ==
    LET found == SelectSeq(log, LAMBDA e : e.op \in OpSet /\ e.result = "found")
    IN [i \in 1..Len(found) |-> found[i].op]

\* C26: the operations of a run are recorded in the fixed order, each at most
\* once; each reads the output of the most recent operation that succeeded, the
\* original if none has; and an output put in place by the final rename is the
\* original with the rewrites of exactly the operations that succeeded, in order.
C26_FixedOrderAndChaining ==
    /\ \A i, j \in OpEntries : i < j => StageNo(log[i].op) < StageNo(log[j].op)
    /\ \A i \in OpEntries : log[i].input = ExpectedInput(i)
    /\ (PipelineCompleted /\ HasEntry("rename", "renamed")) =>
          /\ Exists(fs, output_file)
          /\ fs[output_file] = [src |-> Tail(file_path), ops |-> FoundOps, whole |-> TRUE]

\* C27: the directories named in the mkdir script are exactly the values the
\* path operation writes into the XML for the same entries.
C27_MkdirNamesRewrittenValue ==
    (xpc = "done" /\ xOp = "paths" /\ ScriptEntries # <<>>) =>
        Range(ScriptLines) =
            {<<MKDIR, QUOTE>> \o CombinedPath(xArg, ScriptEntries[i].value) \o <<QUOTE>> :
                i \in 1..Len(ScriptEntries)}

\* C28: when a CAR job whose pipeline produced a modified XML has moved its
\* archive, the archive holds an XML made from the selected file by the
\* pipeline at the path the selected file had in the container, and no other
\* entry made from the selected file.
C28_TransformedXmlAtItsPath ==
    (kind = "car" /\ pc = "exited" /\ HasEntry("rename", "renamed")) =>
        \A d \in Destinations :
            /\ SelectedXml \in DOMAIN fs[d].entries
            /\ fs[d].entries[SelectedXml].src = SelectedXml
            /\ fs[d].entries[SelectedXml].ops # <<>>
            /\ \A rel \in DOMAIN fs[d].entries \ {SelectedXml} :
                  fs[d].entries[rel].src # SelectedXml

\* the job extracted its container and no operation of its pipeline has
\* produced a file: none was selected, or each one found no tag
NoModifiedXml ==
    /\ kind = "car" /\ HasEntry("extract", "ok")
    /\ \A i \in 1..Len(log) : log[i].op \in OpSet \cup {"rename"} => log[i].result = "nomatch"

\* C29: no step of a CAR job whose pipeline produces no modified XML changes
\* the original archive, puts or changes a file in the output directory, or
\* records a move.
C29_NothingEmittedWithoutModification ==
    [][NoModifiedXml' =>
          /\ Exists(fs', InputCar) /\ fs'[InputCar] = fs[InputCar]
          /\ Tree(fs', DirModified) = Tree(fs, DirModified)
          /\ \A q \in Tree(fs, DirModified) : fs'[q] = fs[q]
          /\ ~LastEntry(log', "move", "ok")]_vars

\* C30: when the final rename has failed in a run without any IOError and
\* the sweep is over, the intermediate that was reported as the place of the
\* final output still exists, with the rewrites of the operations that
\* succeeded (a CAR job's extraction directory being removed at its end, the
\* statement is about the time before that).
C30_ReportedIntermediateKept ==
    (HasEntry("rename", "oserror") /\ pc \notin {"sweep", "finally"}
        /\ (\A i \in 1..Len(log) : log[i].result # "ioerror")
        /\ ~(kind = "car" /\ pc = "exited")) =>
        \A r \in 1..Len(log) :
            (log[r].op = "rename") =>
                /\ Exists(fs, log[r].input)
                /\ fs[log[r].input].ops # <<>>

====
